---- MODULE Spec2Model ----
(***************************************************************************)
(* State-machine model of the todo/group domain entities (TodoGroup,       *)
(* TodoItem) and of TodoManager in src/scripts/newtab.js, together with    *)
(* the chrome.storage.sync key-value store the manager reads and writes.   *)
(*                                                                         *)
(* JavaScript values are records [t, s, n]: t is the typeof tag, s the     *)
(* characters of a string, n the value of a number or boolean.  Strings   *)
(* are sequences of one-character strings so that trim() is computed.      *)
(* Timestamps are readings of a millisecond clock (now) that may or may    *)
(* not advance between two steps.  chrome.storage.sync settles the set     *)
(* calls in the order they were issued.                                    *)
(***************************************************************************)
EXTENDS Integers, Sequences, FiniteSets, TLC

\* ---------------------------------------------------------------- bounds
\* events of one run: calls of the manager, page loads and clock ticks
MaxOps == 2

\* ------------------------------------------------------------- constants
MAX_TODO_LENGTH == 200
MAX_GROUP_NAME_LENGTH == 50

\* ------------------------------------------------------ JavaScript values
Str(s) == [t |-> "string", s |-> s, n |-> 0]
Num(k) == [t |-> "number", s |-> <<>>, n |-> k]
Bool(b) == [t |-> "boolean", s |-> <<>>, n |-> IF b THEN 1 ELSE 0]
Null == [t |-> "null", s |-> <<>>, n |-> 0]
Undefined == [t |-> "undefined", s |-> <<>>, n |-> 0]

\* ToBoolean: what !v, v || d and Boolean(v) test
Truthy(v) ==
    CASE v.t = "string" -> v.s # <<>>
      [] v.t = "number" -> v.n # 0
      [] v.t = "boolean" -> v.n = 1
      [] OTHER -> FALSE

\* Number(v) || 0 ; the strings of this model hold no digits, so a
\* non-blank string converts to NaN and NaN || 0 is 0
NumberOrZero(v) ==
    CASE v.t = "number" -> v.n
      [] v.t = "boolean" -> v.n
      [] OTHER -> 0

RECURSIVE trimStart(_)
trimStart(s) == IF s # <<>> /\ Head(s) = " " THEN trimStart(Tail(s)) ELSE s

RECURSIVE trimEnd(_)
trimEnd(s) ==
    IF s # <<>> /\ s[Len(s)] = " " THEN trimEnd(SubSeq(s, 1, Len(s) - 1)) ELSE s

\* String.prototype.trim
trim(s) == trimEnd(trimStart(s))

Repeat(c, k) == [i \in 1..k |-> c]

\* --------------------------------------------------------------- TodoGroup
\* validateName: TRUE when no TodoValidationError is thrown
validateName(name) ==
    /\ ~(~Truthy(name) \/ name.t # "string")
    /\ Len(trim(name.s)) # 0
    /\ ~(Len(trim(name.s)) > MAX_GROUP_NAME_LENGTH)

\* new TodoGroup(name, position, id) for a name that passed validateName;
\* gen is the value generateId() would return, time the clock reading
NewTodoGroup(name, position, id, gen, time) ==
    [id |-> IF id # "" THEN id ELSE gen,
     name |-> trim(name.s),
     position |-> NumberOrZero(position),
     createdAt |-> time,
     updatedAt |-> time]

updateName(group, newName, time) ==
    [group EXCEPT !.name = trim(newName.s), !.updatedAt = time]

updatePosition(group, newPosition, time) ==
    [group EXCEPT !.position = NumberOrZero(newPosition), !.updatedAt = time]

GroupToJSON(group) ==
    [obj |-> TRUE,
     id |-> group.id,
     name |-> Str(group.name),
     position |-> Num(group.position),
     createdAt |-> group.createdAt,
     updatedAt |-> group.updatedAt]

\* TodoGroup.fromJSON: TRUE when it returns a group (throws nothing)
GroupFromJSONOk(data) == data.obj /\ validateName(data.name)

GroupFromJSON(data, gen, time) ==
    NewTodoGroup(data.name, data.position, data.id, gen, time)

\* ---------------------------------------------------------------- TodoItem
validateText(text) ==
    /\ ~(~Truthy(text) \/ text.t # "string")
    /\ Len(trim(text.s)) # 0
    /\ ~(Len(trim(text.s)) > MAX_TODO_LENGTH)

\* group ids are strings; "" stands for every falsy or non-string value
validateGroupId(groupId) == groupId # ""

NewTodoItem(text, groupId, completed, description, id, gen, time) ==
    [id |-> IF id # "" THEN id ELSE gen,
     text |-> trim(text.s),
     groupId |-> groupId,
     completed |-> Truthy(completed),
     description |-> IF Truthy(description) THEN description ELSE Str(<<>>),
     createdAt |-> time,
     updatedAt |-> time]

updateText(todo, newText, time) ==
    [todo EXCEPT !.text = trim(newText.s), !.updatedAt = time]

\* faulty variant: toggleCompletion marks the todo completed
toggleCompletion_SetsCompleted(todo, time) ==
    [todo EXCEPT !.completed = TRUE, !.updatedAt = time]

toggleCompletion(todo, time) ==
    [todo EXCEPT !.completed = ~todo.completed, !.updatedAt = time]

updateDescription(todo, newDescription, time) ==
    [todo EXCEPT !.description =
                     IF Truthy(newDescription) THEN newDescription ELSE Str(<<>>),
                 !.updatedAt = time]

TodoToJSON(todo) ==
    [obj |-> TRUE,
     id |-> todo.id,
     text |-> Str(todo.text),
     groupId |-> todo.groupId,
     completed |-> Bool(todo.completed),
     description |-> todo.description,
     createdAt |-> todo.createdAt,
     updatedAt |-> todo.updatedAt]

TodoFromJSONOk(data) ==
    data.obj /\ validateText(data.text) /\ validateGroupId(data.groupId)

TodoFromJSON(data, gen, time) ==
    NewTodoItem(data.text, data.groupId, data.completed,
                IF Truthy(data.description) THEN data.description ELSE Str(<<>>),
                data.id, gen, time)

\* ------------------------------------------------------------- identifiers
\* generateId(): an identifier no entity, stored record or write in flight
\* carries; the pools list the identifiers in the order they are handed out
GroupIdPool == <<"g1", "g2", "g3", "g4", "g5", "g6">>
TodoIdPool == <<"t1", "t2", "t3", "t4", "t5", "t6">>

Range(seq) == {seq[i] : i \in 1..Len(seq)}

HasFreshId(pool, used) == \E i \in 1..Len(pool) : pool[i] \notin used

generateId(pool, used) ==
    pool[CHOOSE i \in 1..Len(pool) :
            /\ pool[i] \notin used
            /\ \A j \in 1..(i - 1) : pool[j] \in used]

\* ------------------------------------------------------------------ state
VARIABLES
    groups,          \* TodoManager.groups
    todos,           \* TodoManager.todos
    currentFilter,   \* TodoManager.currentFilter
    isInitialized,   \* TodoManager.isInitialized
    storedGroups,    \* chrome.storage.sync value under GROUPS_STORAGE_KEY
    storedTodos,     \* chrome.storage.sync value under STORAGE_KEY
    writes,          \* chrome.storage.sync.set calls not yet settled, oldest first
    pc,              \* position of initialize(): loadGroups, loadTodos,
                     \* createDefaultGroup, ready, failed
    ret,             \* the call that completed in the last step, if any
    now,             \* clock reading, new Date()
    nOps,            \* number of calls made so far
    rendered         \* what TodoUI.render last put on the page

vars == <<groups, todos, currentFilter, isInitialized, storedGroups,
          storedTodos, writes, pc, ret, now, nOps, rendered>>

\* the page before TodoUI.render has run: no column, the counts not filled in
NoView == [shown |-> FALSE, board |-> <<>>, activeCount |-> 0,
           completedCount |-> 0, emptyState |-> FALSE]

\* op: the operation; res: what the caller observes (the value returned or
\* the error raised); n: the count clearCompleted returns; id: the id the
\* call was given or, for addGroup and addTodo, the id of the new entity
NoRet == [op |-> "none", res |-> "none", n |-> 0, id |-> ""]
Returned(op, res, id) == [op |-> op, res |-> res, n |-> 0, id |-> id]

UsedGroupIds ==
    {g.id : g \in Range(groups)} \cup {t.groupId : t \in Range(todos)}
    \cup {g.id : g \in Range(storedGroups)}
    \cup {t.groupId : t \in Range(storedTodos)}
    \cup UNION {{g.id : g \in Range(w.gdata)} : w \in Range(writes)}
    \cup UNION {{t.groupId : t \in Range(w.tdata)} : w \in Range(writes)}

UsedTodoIds ==
    {t.id : t \in Range(todos)} \cup {t.id : t \in Range(storedTodos)}
    \cup UNION {{t.id : t \in Range(w.tdata)} : w \in Range(writes)}

\* ------------------------------------------------------- array operations
\* Array.prototype.findIndex on an id; 0 stands for -1 (not found)
findIndex(seq, id) ==
    IF \E i \in 1..Len(seq) : seq[i].id = id
    THEN CHOOSE i \in 1..Len(seq) :
            seq[i].id = id /\ \A j \in 1..(i - 1) : seq[j].id # id
    ELSE 0

\* Array.prototype.splice(index, 1)
splice(seq, index) == SubSeq(seq, 1, index - 1) \o SubSeq(seq, index + 1, Len(seq))

\* Array.prototype.filter
filter(seq, keep(_)) == SelectSeq(seq, keep)

\* groups.sort((a, b) => a.position - b.position): a stable sort
InsertByPosition(sorted, g) ==
    LET k == Cardinality({i \in 1..Len(sorted) : sorted[i].position <= g.position})
    IN SubSeq(sorted, 1, k) \o <<g>> \o SubSeq(sorted, k + 1, Len(sorted))

RECURSIVE SortByPosition(_)
SortByPosition(seq) ==
    IF seq = <<>> THEN <<>>
    ELSE InsertByPosition(SortByPosition(SubSeq(seq, 1, Len(seq) - 1)), seq[Len(seq)])

\* TodoManager.getGroups
getGroups == SortByPosition(groups)

\* ------------------------------------------------------------ persistence
\* the record of one chrome.storage.sync.set call in flight: the key, the
\* snapshot it carries, the manager call (op) that awaits it and what that
\* call returns when the write succeeds.  role: "only" for the single write
\* of a call, "first"/"second" for the two writes removeGroup passes to
\* Promise.all, "detached" for a write whose call has already been rejected
Write(key, gdata, tdata, op, role, res, n, id) ==
    [key |-> key, gdata |-> gdata, tdata |-> tdata, op |-> op, role |-> role,
     res |-> res, n |-> n, id |-> id]

\* faulty variant: saveTodos writes the last todo only
saveTodos_LastOnly(ts, op, role, res, n, id) ==
    Write("todos", <<>>,
          IF ts = <<>> THEN <<>> ELSE <<TodoToJSON(ts[Len(ts)])>>, op, role, res, n, id)

\* saveGroups / saveTodos up to their await: the snapshot of the whole array
saveGroups(gs, op, role, res, n, id) ==
    Write("groups", [i \in 1..Len(gs) |-> GroupToJSON(gs[i])], <<>>, op, role, res, n, id)

saveTodos(ts, op, role, res, n, id) ==
    Write("todos", <<>>, [i \in 1..Len(ts) |-> TodoToJSON(ts[i])], op, role, res, n, id)

\* the map(...fromJSON...).filter(x => x !== null) of loadGroups
RECURSIVE MapGroupsFromJSON(_, _, _, _)
MapGroupsFromJSON(stored, acc, used, time) ==
    IF stored = <<>> THEN acc
    ELSE IF GroupFromJSONOk(Head(stored))
         THEN LET g == GroupFromJSON(Head(stored), generateId(GroupIdPool, used), time)
              IN MapGroupsFromJSON(Tail(stored), Append(acc, g), used \cup {g.id}, time)
         ELSE MapGroupsFromJSON(Tail(stored), acc, used, time)

\* faulty variant: loadTodos gives up at the first invalid record
RECURSIVE MapTodosFromJSON_StopsAtInvalid(_, _, _, _)
MapTodosFromJSON_StopsAtInvalid(stored, acc, used, time) ==
    IF stored = <<>> THEN acc
    ELSE IF TodoFromJSONOk(Head(stored))
         THEN LET t == TodoFromJSON(Head(stored), generateId(TodoIdPool, used), time)
              IN MapTodosFromJSON_StopsAtInvalid(Tail(stored), Append(acc, t),
                                                 used \cup {t.id}, time)
         ELSE acc

\* the map(...fromJSON...).filter(x => x !== null) of loadTodos
RECURSIVE MapTodosFromJSON(_, _, _, _)
MapTodosFromJSON(stored, acc, used, time) ==
    IF stored = <<>> THEN acc
    ELSE IF TodoFromJSONOk(Head(stored))
         THEN LET t == TodoFromJSON(Head(stored), generateId(TodoIdPool, used), time)
              IN MapTodosFromJSON(Tail(stored), Append(acc, t), used \cup {t.id}, time)
         ELSE MapTodosFromJSON(Tail(stored), acc, used, time)

\* ---------------------------------------------------------------- inputs
\* what chrome.storage.sync may hold when the page is opened
StoredGroup(id, name, position) ==
    [obj |-> TRUE, id |-> id, name |-> name, position |-> position,
     createdAt |-> 0, updatedAt |-> 0]

StoredTodo(id, text, groupId, completed, description) ==
    [obj |-> TRUE, id |-> id, text |-> text, groupId |-> groupId,
     completed |-> completed, description |-> description,
     createdAt |-> 0, updatedAt |-> 0]

\* an array element that is not an object (null)
NotAGroup ==
    [obj |-> FALSE, id |-> "", name |-> Undefined, position |-> Undefined,
     createdAt |-> 0, updatedAt |-> 0]

NotATodo ==
    [obj |-> FALSE, id |-> "", text |-> Undefined, groupId |-> "",
     completed |-> Undefined, description |-> Undefined,
     createdAt |-> 0, updatedAt |-> 0]

DEFAULT_GROUP_NAME == Str(<<"T", "o", " ", "D", "o">>)

\* a board written by an earlier session, its groups not in position order
BoardGroups ==
    <<StoredGroup("g1", Str(<<"A">>), Num(1)),
      StoredGroup("g2", Str(<<"B">>), Num(0)),
      StoredGroup("g3", Str(<<"C">>), Num(2))>>

BoardTodos ==
    <<StoredTodo("t1", Str(<<"a">>), "g1", Bool(FALSE), Str(<<>>)),
      StoredTodo("t2", Str(<<"b">>), "g3", Bool(TRUE), Str(<<"d">>)),
      StoredTodo("t3", Str(<<"c">>), "g1", Bool(FALSE), Str(<<>>))>>

\* damaged records among valid ones
DamagedGroups ==
    <<NotAGroup,
      StoredGroup("g2", Str(<<"B">>), Num(-1)),
      StoredGroup("g3", Str(<<" ">>), Num(0)),
      StoredGroup("", Str(<<" ", "A", " ">>), Undefined)>>

DamagedTodos ==
    <<StoredTodo("t1", Str(<<>>), "g2", Bool(FALSE), Str(<<>>)),
      StoredTodo("t2", Str(<<"a">>), "", Bool(FALSE), Str(<<>>)),
      NotATodo,
      StoredTodo("t3", Str(<<"b">>), "g2", Bool(TRUE), Str(<<"d">>)),
      StoredTodo("", Str(<<" ", "a">>), "g9", Str(<<"y">>), Undefined)>>

\* no group record is valid
InvalidGroups ==
    <<StoredGroup("g1", Num(7), Num(0)),
      StoredGroup("g2", Str(Repeat("x", MAX_GROUP_NAME_LENGTH + 1)), Num(1))>>

InvalidGroupsTodos ==
    <<StoredTodo("t1", Str(<<"a">>), "g1", Bool(FALSE), Str(<<>>))>>

StoredContents ==
    {<<<<>>, <<>>>>,
     <<BoardGroups, BoardTodos>>,
     <<DamagedGroups, DamagedTodos>>,
     <<InvalidGroups, InvalidGroupsTodos>>}

\* arguments of the manager's operations
NameInputs ==
    {Str(<<" ">> \o Repeat("x", MAX_GROUP_NAME_LENGTH)),
     Str(Repeat("x", MAX_GROUP_NAME_LENGTH + 1)),
     Str(<<>>), Str(<<" ">>), Num(7), Undefined}

TextInputs ==
    {Str(<<" ", "n">>),
     Str(Repeat("x", MAX_TODO_LENGTH + 1)),
     Str(<<>>), Str(<<" ">>), Num(7), Undefined}

PositionInputs == {Null, Num(-1)}

DescriptionInputs == {Str(<<"d">>), Undefined}

FilterInputs == {"all", "active", "completed", "done"}

GroupIdInputs == {g.id : g \in Range(groups)} \cup {"gX"}

TodoIdInputs == {t.id : t \in Range(todos)} \cup {"tX"}

\* ---------------------------------------------------------- initialization
\* new TodoManager() and the call of initialize() up to its first await
Init ==
    /\ groups = <<>>
    /\ todos = <<>>
    /\ currentFilter = "active"
    /\ isInitialized = FALSE
    /\ \E c \in StoredContents : storedGroups = c[1] /\ storedTodos = c[2]
    /\ writes = <<>>
    /\ pc = "loadGroups"
    /\ ret = NoRet
    /\ now = 0
    /\ nOps = 0
    /\ rendered = NoView

\* faulty variant: an omitted position becomes the group count plus one
addGroupPush_OffByOne(gs, name, position, gen, time) ==
    LET newPosition == IF position # Null /\ position # Undefined
                       THEN position ELSE Num(Len(gs) + 1)
    IN SortByPosition(Append(gs, NewTodoGroup(name, newPosition, "", gen, time)))

\* faulty variant: addGroup appends the new group and does not sort
addGroupPush_NoSort(gs, name, position, gen, time) ==
    LET newPosition == IF position # Null /\ position # Undefined
                       THEN position ELSE Num(Len(gs))
    IN Append(gs, NewTodoGroup(name, newPosition, "", gen, time))

\* faulty variant: initialize always creates the default group
needsDefaultGroup_Always(gs) == TRUE

\* the test initialize makes before createDefaultGroup
needsDefaultGroup(gs) == Len(gs) = 0

\* the array addGroup leaves in this.groups
addGroupPush(gs, name, position, gen, time) ==
    LET newPosition == IF position # Null /\ position # Undefined
                       THEN position ELSE Num(Len(gs))
    IN SortByPosition(Append(gs, NewTodoGroup(name, newPosition, "", gen, time)))

\* faulty variant: the catch blocks rethrow whatever they caught
catchBlock_Rethrows(op, error) == error

\* the catch block of an operation: what its caller is thrown for an error
\* raised in its try block.  addGroup, updateGroupName, addTodo and updateTodo
\* rethrow a TodoValidationError; every other error, and every error in the
\* other operations, becomes a StorageError
catchBlock(op, error) ==
    IF /\ error = "ValidationError"
       /\ op \in {"addGroup", "updateGroupName", "addTodo", "updateTodo"}
    THEN "ValidationError"
    ELSE "StorageError"

\* loadGroups settles: ok when chrome.storage.sync.get resolved
LoadGroups(ok) ==
    /\ pc = "loadGroups"
    /\ IF ok
       THEN /\ groups' = MapGroupsFromJSON(storedGroups, <<>>, UsedGroupIds, now)
            /\ pc' = "loadTodos"
            /\ ret' = NoRet
       ELSE /\ pc' = "failed"
            /\ ret' = Returned("initialize",
                               catchBlock("initialize", catchBlock("loadGroups", "Error")), "")
            /\ UNCHANGED groups
    /\ UNCHANGED <<todos, currentFilter, isInitialized, storedGroups,
                   storedTodos, writes, now, nOps>>

\* loadTodos settles, then initialize runs on to createDefaultGroup's write
\* or to its end
LoadTodos(ok) ==
    /\ pc = "loadTodos"
    /\ IF ~ok
       THEN /\ pc' = "failed"
            /\ ret' = Returned("initialize",
                               catchBlock("initialize", catchBlock("loadTodos", "Error")), "")
            /\ UNCHANGED <<groups, todos, isInitialized, writes>>
       ELSE /\ todos' = MapTodosFromJSON(storedTodos, <<>>, UsedTodoIds, now)
            /\ IF needsDefaultGroup(groups)
               THEN /\ groups' = addGroupPush(groups, DEFAULT_GROUP_NAME, Null,
                                              generateId(GroupIdPool, UsedGroupIds), now)
                    /\ writes' = Append(writes,
                           saveGroups(groups', "initialize", "only", "ok", 0, ""))
                    /\ pc' = "createDefaultGroup"
                    /\ ret' = NoRet
                    /\ UNCHANGED isInitialized
               ELSE /\ pc' = "ready"
                    /\ isInitialized' = TRUE
                    /\ ret' = Returned("initialize", "ok", "")
                    /\ UNCHANGED <<groups, writes>>
    /\ UNCHANGED <<currentFilter, storedGroups, storedTodos, now, nOps>>

\* -------------------------------------------------------------- operations
\* the UI wires its handlers after initialize() resolved
CanCall == pc = "ready" /\ nOps < MaxOps

\* a call that ends before it reaches a write
Ends(op, res, id) ==
    /\ ret' = Returned(op, res, id)
    /\ UNCHANGED <<groups, todos, writes>>

\* addGroup(name, position)
AddGroup(name, position) ==
    /\ CanCall
    /\ nOps' = nOps + 1
    /\ IF ~validateName(name)
       THEN Ends("addGroup", catchBlock("addGroup", "ValidationError"), "")
       ELSE /\ HasFreshId(GroupIdPool, UsedGroupIds)
            /\ LET gen == generateId(GroupIdPool, UsedGroupIds)
               IN /\ groups' = addGroupPush(groups, name, position, gen, now)
                  /\ writes' = Append(writes,
                         saveGroups(groups', "addGroup", "only", "group", 0, gen))
            /\ ret' = NoRet
            /\ UNCHANGED todos
    /\ UNCHANGED <<currentFilter, isInitialized, storedGroups, storedTodos, pc, now>>

\* faulty variant: the todos of the removed group are left in place
removeGroupTodos_NoCascade(ts, groupId) == ts

\* the arrays removeGroup leaves in this.groups and this.todos
removeGroupTodos(ts, groupId) == filter(ts, LAMBDA todo : todo.groupId # groupId)

\* faulty variant: removeGroup leaves the positions of the other groups alone
removeGroupGroups_NoRenumber(gs, groupIndex, time) ==
    splice(gs, groupIndex)

removeGroupGroups(gs, groupIndex, time) ==
    LET rest == splice(gs, groupIndex)
    IN [index \in 1..Len(rest) |-> updatePosition(rest[index], Num(index - 1), time)]

\* removeGroup(groupId)
RemoveGroup(groupId) ==
    /\ CanCall
    /\ nOps' = nOps + 1
    /\ LET groupIndex == findIndex(groups, groupId)
       IN IF groupIndex = 0
          THEN Ends("removeGroup", "false", groupId)
          ELSE /\ todos' = removeGroupTodos(todos, groupId)
               /\ groups' = removeGroupGroups(groups, groupIndex, now)
               /\ writes' = writes \o
                      <<saveGroups(groups', "removeGroup", "first", "true", 0, groupId),
                        saveTodos(todos', "removeGroup", "second", "true", 0, groupId)>>
               /\ ret' = NoRet
    /\ UNCHANGED <<currentFilter, isInitialized, storedGroups, storedTodos, pc, now>>

\* updateGroupName(groupId, newName)
UpdateGroupName(groupId, newName) ==
    /\ CanCall
    /\ nOps' = nOps + 1
    /\ LET index == findIndex(groups, groupId)
       IN IF index = 0
          THEN Ends("updateGroupName", "false", groupId)
          ELSE IF ~validateName(newName)
          THEN Ends("updateGroupName",
                    catchBlock("updateGroupName", "ValidationError"), groupId)
          ELSE /\ groups' = [groups EXCEPT ![index] = updateName(@, newName, now)]
               /\ writes' = Append(writes,
                      saveGroups(groups', "updateGroupName", "only", "true", 0, groupId))
               /\ ret' = NoRet
               /\ UNCHANGED todos
    /\ UNCHANGED <<currentFilter, isInitialized, storedGroups, storedTodos, pc, now>>

\* text.substring(0, 50) in the Logger.info call that opens addTodo and
\* updateTodo: TRUE when it throws a TypeError
substringThrows(text) == text.t # "string"

\* faulty variant: addTodo looks the group up in the stored groups
AddTodo_ChecksStorage(text, groupId) ==
    /\ CanCall
    /\ nOps' = nOps + 1
    /\ IF substringThrows(text)
       THEN Ends("addTodo", catchBlock("addTodo", "TypeError"), "")
       ELSE IF findIndex(storedGroups, groupId) = 0
       THEN Ends("addTodo", catchBlock("addTodo", "ValidationError"), "")
       ELSE IF ~(validateText(text) /\ validateGroupId(groupId))
       THEN Ends("addTodo", catchBlock("addTodo", "ValidationError"), "")
       ELSE /\ HasFreshId(TodoIdPool, UsedTodoIds)
            /\ LET gen == generateId(TodoIdPool, UsedTodoIds)
               IN /\ todos' = Append(todos,
                         NewTodoItem(text, groupId, Bool(FALSE), Str(<<>>), "", gen, now))
                  /\ writes' = Append(writes,
                         saveTodos(todos', "addTodo", "only", "todo", 0, gen))
            /\ ret' = NoRet
            /\ UNCHANGED groups
    /\ UNCHANGED <<currentFilter, isInitialized, storedGroups, storedTodos, pc, now>>

\* addTodo(text, groupId)
AddTodo(text, groupId) ==
    /\ CanCall
    /\ nOps' = nOps + 1
    /\ IF substringThrows(text)
       THEN Ends("addTodo", catchBlock("addTodo", "TypeError"), "")
       ELSE IF findIndex(groups, groupId) = 0
       THEN Ends("addTodo", catchBlock("addTodo", "ValidationError"), "")
       ELSE IF ~(validateText(text) /\ validateGroupId(groupId))
       THEN Ends("addTodo", catchBlock("addTodo", "ValidationError"), "")
       ELSE /\ HasFreshId(TodoIdPool, UsedTodoIds)
            /\ LET gen == generateId(TodoIdPool, UsedTodoIds)
               IN /\ todos' = Append(todos,
                         NewTodoItem(text, groupId, Bool(FALSE), Str(<<>>), "", gen, now))
                  /\ writes' = Append(writes,
                         saveTodos(todos', "addTodo", "only", "todo", 0, gen))
            /\ ret' = NoRet
            /\ UNCHANGED groups
    /\ UNCHANGED <<currentFilter, isInitialized, storedGroups, storedTodos, pc, now>>

\* removeTodo(id)
RemoveTodo(id) ==
    /\ CanCall
    /\ nOps' = nOps + 1
    /\ LET index == findIndex(todos, id)
       IN IF index = 0
          THEN Ends("removeTodo", "false", id)
          ELSE /\ todos' = splice(todos, index)
               /\ writes' = Append(writes,
                      saveTodos(todos', "removeTodo", "only", "true", 0, id))
               /\ ret' = NoRet
               /\ UNCHANGED groups
    /\ UNCHANGED <<currentFilter, isInitialized, storedGroups, storedTodos, pc, now>>

\* faulty variant: moveTodo to the todo's own group stamps and saves the todo
MoveTodo_NoSameGroupCheck(todoId, newGroupId) ==
    /\ CanCall
    /\ nOps' = nOps + 1
    /\ LET index == findIndex(todos, todoId)
       IN IF findIndex(groups, newGroupId) = 0
          THEN Ends("moveTodo", "false", todoId)
          ELSE IF index = 0
          THEN Ends("moveTodo", "false", todoId)
          ELSE /\ todos' = [todos EXCEPT ![index] =
                               [@ EXCEPT !.groupId = newGroupId, !.updatedAt = now]]
               /\ writes' = Append(writes,
                      saveTodos(todos', "moveTodo", "only", "true", 0, todoId))
               /\ ret' = NoRet
               /\ UNCHANGED groups
    /\ UNCHANGED <<currentFilter, isInitialized, storedGroups, storedTodos, pc, now>>

\* moveTodo(todoId, newGroupId)
MoveTodo(todoId, newGroupId) ==
    /\ CanCall
    /\ nOps' = nOps + 1
    /\ LET index == findIndex(todos, todoId)
       IN IF findIndex(groups, newGroupId) = 0
          THEN Ends("moveTodo", "false", todoId)
          ELSE IF index = 0
          THEN Ends("moveTodo", "false", todoId)
          ELSE IF todos[index].groupId = newGroupId
          THEN Ends("moveTodo", "true", todoId)
          ELSE /\ todos' = [todos EXCEPT ![index] =
                               [@ EXCEPT !.groupId = newGroupId, !.updatedAt = now]]
               /\ writes' = Append(writes,
                      saveTodos(todos', "moveTodo", "only", "true", 0, todoId))
               /\ ret' = NoRet
               /\ UNCHANGED groups
    /\ UNCHANGED <<currentFilter, isInitialized, storedGroups, storedTodos, pc, now>>

\* updateTodo(id, newText, newDescription)
UpdateTodo(id, newText, newDescription) ==
    /\ CanCall
    /\ nOps' = nOps + 1
    /\ LET index == findIndex(todos, id)
       IN IF substringThrows(newText)
          THEN Ends("updateTodo", catchBlock("updateTodo", "TypeError"), id)
          ELSE IF index = 0
          THEN Ends("updateTodo", "false", id)
          ELSE IF ~validateText(newText)
          THEN Ends("updateTodo", catchBlock("updateTodo", "ValidationError"), id)
          ELSE /\ todos' = [todos EXCEPT ![index] =
                               updateDescription(updateText(@, newText, now),
                                                 newDescription, now)]
               /\ writes' = Append(writes,
                      saveTodos(todos', "updateTodo", "only", "true", 0, id))
               /\ ret' = NoRet
               /\ UNCHANGED groups
    /\ UNCHANGED <<currentFilter, isInitialized, storedGroups, storedTodos, pc, now>>

\* toggleTodo(id)
ToggleTodo(id) ==
    /\ CanCall
    /\ nOps' = nOps + 1
    /\ LET index == findIndex(todos, id)
       IN IF index = 0
          THEN Ends("toggleTodo", "false", id)
          ELSE /\ todos' = [todos EXCEPT ![index] = toggleCompletion(@, now)]
               /\ writes' = Append(writes,
                      saveTodos(todos', "toggleTodo", "only", "true", 0, id))
               /\ ret' = NoRet
               /\ UNCHANGED groups
    /\ UNCHANGED <<currentFilter, isInitialized, storedGroups, storedTodos, pc, now>>

\* faulty variant: clearCompleted counts the completed todos after removing them
ClearCompleted_CountsAfter ==
    /\ CanCall
    /\ nOps' = nOps + 1
    /\ todos' = filter(todos, LAMBDA todo : ~todo.completed)
    /\ LET completedCount == Len(filter(todos', LAMBDA todo : todo.completed))
       IN writes' = Append(writes,
              saveTodos(todos', "clearCompleted", "only", "count", completedCount, ""))
    /\ ret' = NoRet
    /\ UNCHANGED <<groups, currentFilter, isInitialized, storedGroups, storedTodos,
                   pc, now>>

\* clearCompleted()
ClearCompleted ==
    /\ CanCall
    /\ nOps' = nOps + 1
    /\ LET completedCount == Len(filter(todos, LAMBDA todo : todo.completed))
       IN /\ todos' = filter(todos, LAMBDA todo : ~todo.completed)
          /\ writes' = Append(writes,
                 saveTodos(todos', "clearCompleted", "only", "count", completedCount, ""))
    /\ ret' = NoRet
    /\ UNCHANGED <<groups, currentFilter, isInitialized, storedGroups, storedTodos,
                   pc, now>>

\* setFilter(filter)
SetFilter(newFilter) ==
    /\ CanCall
    /\ nOps' = nOps + 1
    /\ currentFilter' = IF newFilter \notin {"all", "active", "completed"}
                        THEN currentFilter ELSE newFilter
    /\ ret' = Returned("setFilter", "undefined", "")
    /\ UNCHANGED <<groups, todos, isInitialized, storedGroups, storedTodos, writes,
                   pc, now>>

\* faulty variant: under the filter 'active' every todo is listed
getFilteredTodos_ActiveListsAll ==
    CASE currentFilter = "completed" -> filter(todos, LAMBDA todo : todo.completed)
      [] OTHER -> todos

\* getFilteredTodos(): the switch on this.currentFilter
getFilteredTodos ==
    CASE currentFilter = "active" -> filter(todos, LAMBDA todo : ~todo.completed)
      [] currentFilter = "completed" -> filter(todos, LAMBDA todo : todo.completed)
      [] OTHER -> todos

\* faulty variant: the statistics count the todos the current filter lists
getStats_OfFilteredTodos ==
    LET total == Len(getFilteredTodos)
        completed == Len(filter(getFilteredTodos, LAMBDA todo : todo.completed))
        active == total - completed
    IN [total |-> total, active |-> active, completed |-> completed]

\* getStats()
getStats ==
    LET total == Len(todos)
        completed == Len(filter(todos, LAMBDA todo : todo.completed))
        active == total - completed
    IN [total |-> total, active |-> active, completed |-> completed]

\* ----------------------------------------------------------------- storage
\* faulty variant: a rejected write is logged and the call returns as if it succeeded
Completion_SwallowsFailure(w, ok) ==
    IF w.role = "detached" THEN NoRet
    ELSE IF w.role = "first" THEN NoRet
    ELSE [op |-> w.op, res |-> w.res, n |-> w.n, id |-> w.id]

\* what the awaiting call does when its write settles: a rejected set is an
\* Error caught by saveGroups/saveTodos and then by the operation
Completion(w, ok) ==
    IF w.role = "detached" THEN NoRet
    ELSE IF ~ok THEN Returned(w.op, catchBlock(w.op, catchBlock("save", "Error")), w.id)
    ELSE IF w.role = "first" THEN NoRet
    ELSE [op |-> w.op, res |-> w.res, n |-> w.n, id |-> w.id]

\* faulty variant: removeGroup awaits its second write again whenever it
\* settles
Remaining_AwaitsSecondAgain(w, ok, rest) ==
    IF w.role = "second" THEN <<w>> \o rest
    ELSE IF w.role = "first" /\ ~ok /\ rest # <<>>
    THEN <<[Head(rest) EXCEPT !.role = "detached"]>> \o Tail(rest)
    ELSE rest

\* the writes left in flight: when the first write of Promise.all is
\* rejected the call is rejected at once and its second write goes on alone
Remaining(w, ok, rest) ==
    IF w.role = "first" /\ ~ok /\ rest # <<>>
    THEN <<[Head(rest) EXCEPT !.role = "detached"]>> \o Tail(rest)
    ELSE rest

\* faulty variant: chrome.storage.sync settles the newest set call first
Settle_NewestFirst(ok) ==
    /\ writes # <<>>
    /\ LET w == writes[Len(writes)]
       IN /\ storedGroups' = IF ok /\ w.key = "groups" THEN w.gdata ELSE storedGroups
          /\ storedTodos' = IF ok /\ w.key = "todos" THEN w.tdata ELSE storedTodos
          /\ writes' = SubSeq(writes, 1, Len(writes) - 1)
          /\ ret' = Completion(w, ok)
          /\ IF w.op = "initialize"
             THEN /\ pc' = IF ok THEN "ready" ELSE "failed"
                  /\ isInitialized' = ok
             ELSE UNCHANGED <<pc, isInitialized>>
    /\ UNCHANGED <<groups, todos, currentFilter, now, nOps>>

\* the oldest chrome.storage.sync.set call settles: it resolves (ok) and the
\* key holds its snapshot, or it is rejected and the key keeps its value
Settle(ok) ==
    /\ writes # <<>>
    /\ LET w == Head(writes)
       IN /\ storedGroups' = IF ok /\ w.key = "groups" THEN w.gdata ELSE storedGroups
          /\ storedTodos' = IF ok /\ w.key = "todos" THEN w.tdata ELSE storedTodos
          /\ writes' = Remaining(w, ok, Tail(writes))
          /\ ret' = Completion(w, ok)
          /\ IF w.op = "initialize"
             THEN /\ pc' = IF ok THEN "ready" ELSE "failed"
                  /\ isInitialized' = ok
             ELSE UNCHANGED <<pc, isInitialized>>
    /\ UNCHANGED <<groups, todos, currentFilter, now, nOps>>

\* the millisecond clock advances
Tick ==
    /\ nOps < MaxOps
    /\ nOps' = nOps + 1
    /\ now' = now + 1
    /\ ret' = NoRet
    /\ UNCHANGED <<groups, todos, currentFilter, isInitialized, storedGroups,
                   storedTodos, writes, pc>>

\* the page is opened again: a new TodoManager, initialize() called
Reload ==
    /\ pc \in {"ready", "failed"}
    /\ writes = <<>>
    /\ nOps < MaxOps
    /\ nOps' = nOps + 1
    /\ groups' = <<>>
    /\ todos' = <<>>
    /\ currentFilter' = "active"
    /\ isInitialized' = FALSE
    /\ pc' = "loadGroups"
    /\ ret' = NoRet
    /\ UNCHANGED <<storedGroups, storedTodos, writes, now>>

\* no call is pending: the caller awaited every call it made
Idle == writes = <<>>

\* the caller makes one call at a time
Next ==
    \/ \E ok \in BOOLEAN : LoadGroups(ok) /\ UNCHANGED rendered
    \/ \E ok \in BOOLEAN : LoadTodos(ok) /\ UNCHANGED rendered
    \/ \E name \in NameInputs, position \in PositionInputs :
           Idle /\ AddGroup(name, position) /\ UNCHANGED rendered
    \/ \E groupId \in GroupIdInputs :
           Idle /\ RemoveGroup(groupId) /\ UNCHANGED rendered
    \/ \E groupId \in GroupIdInputs, newName \in NameInputs :
           Idle /\ UpdateGroupName(groupId, newName) /\ UNCHANGED rendered
    \/ \E text \in TextInputs, groupId \in GroupIdInputs :
           Idle /\ AddTodo(text, groupId) /\ UNCHANGED rendered
    \/ \E id \in TodoIdInputs : Idle /\ RemoveTodo(id) /\ UNCHANGED rendered
    \/ \E todoId \in TodoIdInputs, newGroupId \in GroupIdInputs :
           Idle /\ MoveTodo(todoId, newGroupId) /\ UNCHANGED rendered
    \/ \E id \in TodoIdInputs, newText \in TextInputs,
          newDescription \in DescriptionInputs :
           Idle /\ UpdateTodo(id, newText, newDescription) /\ UNCHANGED rendered
    \/ \E id \in TodoIdInputs : Idle /\ ToggleTodo(id) /\ UNCHANGED rendered
    \/ Idle /\ ClearCompleted /\ UNCHANGED rendered
    \/ \E newFilter \in FilterInputs :
           Idle /\ SetFilter(newFilter) /\ UNCHANGED rendered
    \/ \E ok \in BOOLEAN : Settle(ok) /\ UNCHANGED rendered
    \/ Tick /\ UNCHANGED rendered
    \/ Reload /\ UNCHANGED rendered

Spec == Init /\ [][Next]_vars

\* ================================================================== claims
GroupIds(gs) == {gs[i].id : i \in 1..Len(gs)}

\* the elements of seq at the indices in keep, one by one and in order
IsSubsequenceAt(sub, seq, keep) ==
    /\ Len(sub) = Cardinality(keep)
    /\ \A i \in keep : sub[Cardinality({k \in keep : k <= i})] = seq[i]

\* C1: once initialize() has completed, every todo in memory has the groupId
\* of a group in memory
C1_ReferentialIntegrity ==
    pc = "ready" => \A i \in 1..Len(todos) : todos[i].groupId \in GroupIds(groups)

\* C2: removeGroup(g) on an existing group leaves no todo of g and no group g,
\* keeps every other todo unchanged and in order, and returns true once its
\* writes have succeeded (false is returned for an unknown group only)
C2_CascadeDelete ==
    [][/\ \A g \in GroupIdInputs :
            (RemoveGroup(g) /\ g \in GroupIds(groups)) =>
                /\ \A i \in 1..Len(todos') : todos'[i].groupId # g
                /\ IsSubsequenceAt(todos', todos,
                                   {i \in 1..Len(todos) : todos[i].groupId # g})
                /\ g \notin GroupIds(groups')
                /\ ret' = NoRet
       /\ (ret'.op = "removeGroup" /\ ret'.res = "false") =>
              ret'.id \notin GroupIds(groups)
       /\ (ret'.op = "removeGroup" /\ ret'.res = "true") =>
              /\ Settle(TRUE)
              /\ ret'.id \notin GroupIds(groups')
              /\ \A i \in 1..Len(todos') : todos'[i].groupId # ret'.id
      ]_vars

\* removeGroup("g3") has returned true on the stored board: t2 went with the
\* group, t1 and t3 stay in order
C2_Witness ==
    /\ ret = [op |-> "removeGroup", res |-> "true", n |-> 0, id |-> "g3"]
    /\ nOps = 1
    /\ Len(todos) = 2 /\ todos[1].id = "t1" /\ todos[2].id = "t3"
    /\ GroupIds(groups) = {"g1", "g2"}

\* C3: after removeGroup on an existing group the remaining groups have the
\* positions 0..n-1 and getGroups() lists them in the order it listed them
\* before the removal
C3_RenumberBySortedOrder ==
    [][\A g \in GroupIdInputs :
          (RemoveGroup(g) /\ g \in GroupIds(groups)) =>
              LET before == SelectSeq(SortByPosition(groups), LAMBDA x : x.id # g)
                  after == SortByPosition(groups')
              IN /\ Len(after) = Len(before)
                 /\ \A i \in 1..Len(after) :
                        after[i].id = before[i].id /\ after[i].position = i - 1
      ]_vars

\* C4: addTodo with a groupId that matches no group fails with
\* ValidationError, changes no todo and issues no storage write
C4_AddTodoUnknownGroup ==
    [][\A text \in TextInputs, g \in GroupIdInputs :
          (AddTodo(text, g) /\ g \notin GroupIds(groups)) =>
              /\ ret' = Returned("addTodo", "ValidationError", "")
              /\ todos' = todos
              /\ writes' = writes
              /\ storedTodos' = storedTodos /\ storedGroups' = storedGroups
      ]_vars

MutatingOps ==
    {"addGroup", "removeGroup", "updateGroupName", "addTodo", "removeTodo",
     "moveTodo", "updateTodo", "toggleTodo", "clearCompleted"}

SerializedGroups(gs) == [i \in 1..Len(gs) |-> GroupToJSON(gs[i])]
SerializedTodos(ts) == [i \in 1..Len(ts) |-> TodoToJSON(ts[i])]

\* C5: when the storage write of a mutating operation fails, the caller gets
\* StorageError, the in-memory collections keep the mutated state (the state
\* the failed write carried) and the failed key keeps its stored value
C5_NoRollbackOnWriteFailure ==
    [][(/\ writes # <<>>
        /\ Settle(FALSE)
        /\ Head(writes).op \in MutatingOps
        /\ Head(writes).role # "detached") =>
           LET w == Head(writes)
           IN /\ ret' = Returned(w.op, "StorageError", w.id)
              /\ groups' = groups /\ todos' = todos
              /\ w.key = "groups" =>
                     storedGroups' = storedGroups /\ w.gdata = SerializedGroups(groups')
              /\ w.key = "todos" =>
                     storedTodos' = storedTodos /\ w.tdata = SerializedTodos(todos')
      ]_vars

\* toggleTodo("t1") was rejected with StorageError: t1 is completed in memory
\* and still active in storage
C5_Witness ==
    /\ ret = Returned("toggleTodo", "StorageError", "t1")
    /\ nOps = 1
    /\ todos[1].id = "t1" /\ todos[1].completed
    /\ storedTodos[1].id = "t1" /\ storedTodos[1].completed = Bool(FALSE)

\* not a string, empty, whitespace only, or longer than cap once trimmed
InvalidString(v, cap) ==
    \/ v.t # "string"
    \/ v.s = <<>>
    \/ trim(v.s) = <<>>
    \/ Len(trim(v.s)) > cap

NothingChanged ==
    /\ groups' = groups /\ todos' = todos
    /\ storedGroups' = storedGroups /\ storedTodos' = storedTodos
    /\ writes' = writes

\* C6: addGroup and updateGroupName given an invalid name, addTodo and
\* updateTodo given an invalid text, fail with ValidationError and change
\* neither the in-memory nor the stored collections
C6_ValidationBeforeMutation ==
    [][/\ \A name \in NameInputs, position \in PositionInputs :
            (InvalidString(name, MAX_GROUP_NAME_LENGTH) /\ AddGroup(name, position)) =>
                ret'.res = "ValidationError" /\ NothingChanged
       /\ \A g \in GroupIds(groups), name \in NameInputs :
            (InvalidString(name, MAX_GROUP_NAME_LENGTH) /\ UpdateGroupName(g, name)) =>
                ret'.res = "ValidationError" /\ NothingChanged
       /\ \A text \in TextInputs, g \in GroupIds(groups) :
            (InvalidString(text, MAX_TODO_LENGTH) /\ AddTodo(text, g)) =>
                ret'.res = "ValidationError" /\ NothingChanged
       /\ \A id \in {todos[i].id : i \in 1..Len(todos)}, text \in TextInputs,
             description \in DescriptionInputs :
            (InvalidString(text, MAX_TODO_LENGTH) /\ UpdateTodo(id, text, description)) =>
                ret'.res = "ValidationError" /\ NothingChanged
      ]_vars

GroupWriters == {"addGroup", "removeGroup", "updateGroupName"}
TodoWriters ==
    {"removeGroup", "addTodo", "removeTodo", "moveTodo", "updateTodo",
     "toggleTodo", "clearCompleted"}

\* a write issued in this step carries the whole of the given collection
IssuesWrite(key, gdata, tdata) ==
    \E i \in (Len(writes) + 1)..Len(writes') :
        writes'[i].key = key /\ writes'[i].gdata = gdata /\ writes'[i].tdata = tdata

\* C7: with calls made one at a time, a call that changes a collection issues
\* a write of the whole collection before it returns, and when a mutating
\* call returns after its writes succeeded the stored sequence of each kind
\* it writes is the serialization, in order, of the whole in-memory collection
C7_FullCollectionPersistence ==
    [][/\ (pc = "ready" /\ pc' = "ready" /\ groups' # groups) =>
              ret' = NoRet /\ IssuesWrite("groups", SerializedGroups(groups'), <<>>)
       /\ (pc = "ready" /\ pc' = "ready" /\ todos' # todos) =>
              ret' = NoRet /\ IssuesWrite("todos", <<>>, SerializedTodos(todos'))
       /\ (/\ writes # <<>>
           /\ ret'.op \in MutatingOps
           /\ ret'.res \in {"true", "group", "todo", "count"}) =>
              /\ ret'.op \in GroupWriters => storedGroups' = SerializedGroups(groups')
              /\ ret'.op \in TodoWriters => storedTodos' = SerializedTodos(todos')
      ]_vars

\* updateTodo("t2", ...) has returned true on the stored board: storage holds
\* all three todos as they are in memory
C7_Witness ==
    /\ ret = Returned("updateTodo", "true", "t2")
    /\ nOps = 1
    /\ Len(todos) = 3
    /\ todos[2].text = <<"n">>
    /\ storedTodos = SerializedTodos(todos)

\* C8: when loading yields no group, initialize() completes only after
\* creating one group named 'To Do' at position 0, and storage then holds
\* exactly that group's record
C8_DefaultGroupOnFirstRun ==
    [][/\ (pc = "loadTodos" /\ Len(groups) = 0 /\ pc' # pc) =>
              pc' \in {"createDefaultGroup", "failed"}
       /\ (pc = "createDefaultGroup" /\ pc' = "ready") =>
              /\ isInitialized'
              /\ ret' = Returned("initialize", "ok", "")
              /\ Len(groups') = 1
              /\ groups'[1].name = <<"T", "o", " ", "D", "o">>
              /\ groups'[1].position = 0
              /\ storedGroups' = <<GroupToJSON(groups'[1])>>
       /\ (pc # "ready" /\ pc' = "ready") => Len(groups') >= 1
      ]_vars

\* initialize() has completed on a storage whose group records are all
\* invalid: one default group, stored
C8_Witness ==
    /\ pc = "ready"
    /\ ret = Returned("initialize", "ok", "")
    /\ storedTodos = InvalidGroupsTodos
    /\ Len(groups) = 1
    /\ groups[1].name = <<"T", "o", " ", "D", "o">> /\ groups[1].position = 0
    /\ storedGroups = <<GroupToJSON(groups[1])>>

\* C9 as stated: initialize() raises StorageError only when one of its two
\* storage reads fails
C9_OnlyReadsFail ==
    [][(ret'.op = "initialize" /\ ret'.res = "StorageError") =>
           pc \in {"loadGroups", "loadTodos"}
      ]_vars

\* C9 amended: initialize() raises StorageError exactly when a storage read
\* fails or the write of the default group fails; with both reads succeeding
\* it completes at once when a group was loaded, whatever records were
\* stored, and otherwise when the default group's write succeeds
C9_StorageErrorOnReadOrDefaultWrite ==
    [][/\ (ret'.op = "initialize" /\ ret'.res = "StorageError") =>
              /\ pc' = "failed" /\ ~isInitialized'
              /\ \/ pc = "loadGroups" /\ LoadGroups(FALSE)
                 \/ pc = "loadTodos" /\ LoadTodos(FALSE)
                 \/ pc = "createDefaultGroup" /\ Settle(FALSE) /\ Len(groups) = 1
       /\ (pc # "failed" /\ pc' = "failed") =>
              ret' = Returned("initialize", "StorageError", "")
       /\ LoadGroups(TRUE) => pc' = "loadTodos"
       /\ (LoadTodos(TRUE) /\ Len(groups) > 0) =>
              /\ pc' = "ready" /\ isInitialized'
              /\ ret' = Returned("initialize", "ok", "")
       /\ (pc = "createDefaultGroup" /\ Settle(TRUE)) =>
              /\ pc' = "ready" /\ isInitialized'
              /\ ret' = Returned("initialize", "ok", "")
      ]_vars

\* both reads succeeded on an empty storage and the write of the default
\* group was rejected: initialize() raised StorageError
C9_Witness ==
    /\ pc = "failed"
    /\ ret = Returned("initialize", "StorageError", "")
    /\ Len(groups) = 1
    /\ storedGroups = <<>> /\ storedTodos = <<>>
    /\ nOps = 0

ValidStoredGroup(d) ==
    d.obj /\ ~InvalidString(d.name, MAX_GROUP_NAME_LENGTH)

ValidStoredTodo(d) ==
    d.obj /\ ~InvalidString(d.text, MAX_TODO_LENGTH) /\ d.groupId # ""

StoredIds == {storedGroups[i].id : i \in 1..Len(storedGroups)}
             \cup {storedTodos[i].id : i \in 1..Len(storedTodos)}

\* C10 as stated: the load step keeps exactly the valid stored records, in
\* stored order, with the stored id, name/text, groupId, completed and
\* description
C10_LoadKeepsStoredFields ==
    [][/\ (pc = "loadGroups" /\ pc' = "loadTodos") =>
              LET valid == SelectSeq(storedGroups, ValidStoredGroup)
              IN /\ Len(groups') = Len(valid)
                 /\ \A i \in 1..Len(valid) :
                        /\ groups'[i].id = valid[i].id
                        /\ Str(groups'[i].name) = valid[i].name
       /\ (pc = "loadTodos" /\ pc' \in {"ready", "createDefaultGroup"}) =>
              LET valid == SelectSeq(storedTodos, ValidStoredTodo)
              IN /\ Len(todos') = Len(valid)
                 /\ \A i \in 1..Len(valid) :
                        /\ todos'[i].id = valid[i].id
                        /\ Str(todos'[i].text) = valid[i].text
                        /\ todos'[i].groupId = valid[i].groupId
                        /\ Bool(todos'[i].completed) = valid[i].completed
                        /\ todos'[i].description = valid[i].description
      ]_vars

\* C10 amended: the load step keeps exactly the valid stored records, in
\* stored order, each with its stored id when it has one and a generated id
\* no stored record carries otherwise, its name/text trimmed, its groupId,
\* completed converted to a boolean and its description when that is truthy
\* ('' otherwise); invalid records are dropped and the load does not fail
C10_BestEffortLoad ==
    [][/\ (pc = "loadGroups" /\ LoadGroups(TRUE)) =>
              LET valid == SelectSeq(storedGroups, ValidStoredGroup)
              IN /\ pc' = "loadTodos"
                 /\ Len(groups') = Len(valid)
                 /\ \A i \in 1..Len(valid) :
                        /\ IF valid[i].id # "" THEN groups'[i].id = valid[i].id
                           ELSE groups'[i].id \notin StoredIds \cup {""}
                        /\ groups'[i].name = trim(valid[i].name.s)
                 /\ \A i, j \in 1..Len(valid) :
                        (valid[i].id = "" /\ i # j) => groups'[i].id # groups'[j].id
       /\ (pc = "loadTodos" /\ LoadTodos(TRUE)) =>
              LET valid == SelectSeq(storedTodos, ValidStoredTodo)
              IN /\ pc' \in {"ready", "createDefaultGroup"}
                 /\ Len(todos') = Len(valid)
                 /\ \A i \in 1..Len(valid) :
                        /\ IF valid[i].id # "" THEN todos'[i].id = valid[i].id
                           ELSE todos'[i].id \notin StoredIds \cup {""}
                        /\ todos'[i].text = trim(valid[i].text.s)
                        /\ todos'[i].groupId = valid[i].groupId
                        /\ todos'[i].completed = Truthy(valid[i].completed)
                        /\ todos'[i].description =
                               IF Truthy(valid[i].description)
                               THEN valid[i].description ELSE Str(<<>>)
                 /\ \A i, j \in 1..Len(valid) :
                        (valid[i].id = "" /\ i # j) => todos'[i].id # todos'[j].id
      ]_vars

\* the damaged storage has been loaded: the two valid groups and the two
\* valid todos are in memory, the record without id under a generated one
C10_Witness ==
    /\ pc = "ready" /\ nOps = 0
    /\ storedGroups = DamagedGroups /\ storedTodos = DamagedTodos
    /\ Len(groups) = 2 /\ groups[1].id = "g2" /\ groups[2].name = <<"A">>
    /\ groups[2].id \notin {"", "g2", "g3"}
    /\ Len(todos) = 2 /\ todos[1].id = "t3"
    /\ todos[2].text = <<"a">> /\ todos[2].completed

\* C11: every group and every todo in memory is what fromJSON, run now, makes
\* of its toJSON record, in every serialized field (id, name/text, position,
\* groupId, completed, description, createdAt, updatedAt)
C11_RoundTrip ==
    /\ \A i \in 1..Len(groups) :
           /\ GroupFromJSONOk(GroupToJSON(groups[i]))
           /\ GroupFromJSON(GroupToJSON(groups[i]), "", now) = groups[i]
    /\ \A i \in 1..Len(todos) :
           /\ TodoFromJSONOk(TodoToJSON(todos[i]))
           /\ TodoFromJSON(TodoToJSON(todos[i]), "", now) = todos[i]

\* C12: moveTodo(t, g) for an existing todo t that is in the existing group g
\* returns true, changes no todo (groupId and updatedAt of t included) and no
\* group, and issues no storage write
C12_MoveTodoSameGroup ==
    [][\A t \in TodoIdInputs, g \in GroupIdInputs :
          (/\ MoveTodo(t, g)
           /\ g \in GroupIds(groups)
           /\ \E i \in 1..Len(todos) : todos[i].id = t /\ todos[i].groupId = g) =>
              /\ ret' = Returned("moveTodo", "true", t)
              /\ todos' = todos /\ groups' = groups
              /\ writes' = writes
              /\ storedTodos' = storedTodos /\ storedGroups' = storedGroups
      ]_vars

\* moveTodo("t1", "g1") has returned true on the stored board: t1 is as it was
\* loaded and storage was not written
C12_Witness ==
    /\ ret = Returned("moveTodo", "true", "t1")
    /\ nOps = 1 /\ writes = <<>>
    /\ todos[1].id = "t1" /\ todos[1].groupId = "g1" /\ todos[1].updatedAt = 0
    /\ storedTodos = BoardTodos

\* C13: clearCompleted() keeps exactly the todos that are not completed,
\* unchanged and in order, and returns the number of completed todos it
\* removed; a clearCompleted() called right after another one, nothing in
\* between, removes nothing and returns 0
C13_ClearCompleted ==
    [][/\ ClearCompleted =>
              /\ IsSubsequenceAt(todos', todos,
                                 {i \in 1..Len(todos) : ~todos[i].completed})
              /\ Len(writes') = Len(writes) + 1
              /\ writes'[Len(writes')].op = "clearCompleted"
              /\ writes'[Len(writes')].res = "count"
              /\ writes'[Len(writes')].n =
                     Cardinality({i \in 1..Len(todos) : todos[i].completed})
              /\ writes'[Len(writes')].n = Len(todos) - Len(todos')
       /\ (ret'.op = "clearCompleted" /\ ret'.res = "count") =>
              /\ writes # <<>> /\ Settle(TRUE)
              /\ ret'.n = Head(writes).n
              /\ todos' = todos
       /\ (ret.op = "clearCompleted" /\ ClearCompleted) =>
              /\ todos' = todos
              /\ writes'[Len(writes')].n = 0
      ]_vars

\* clearCompleted() has returned 1 on the stored board: t2 is gone, t1 and t3
\* are kept in order
C13_Witness ==
    /\ ret = [op |-> "clearCompleted", res |-> "count", n |-> 1, id |-> ""]
    /\ nOps = 1
    /\ Len(todos) = 2 /\ todos[1].id = "t1" /\ todos[2].id = "t3"
    /\ storedTodos = SerializedTodos(todos)

TodoIds(ts) == {ts[i].id : i \in 1..Len(ts)}

\* C14: removeGroup, updateGroupName, removeTodo, updateTodo and toggleTodo
\* given an id that matches no entity, and moveTodo given an unknown target
\* group or an unknown todo, return false, change neither the in-memory nor
\* the stored collections and issue no storage write
C14_UnknownIdNoOp ==
    [][/\ \A g \in GroupIdInputs \ GroupIds(groups) :
            /\ RemoveGroup(g) =>
                   ret' = Returned("removeGroup", "false", g) /\ NothingChanged
            /\ \A name \in NameInputs :
                   UpdateGroupName(g, name) =>
                       ret' = Returned("updateGroupName", "false", g) /\ NothingChanged
       /\ \A t \in TodoIdInputs \ TodoIds(todos) :
            /\ RemoveTodo(t) =>
                   ret' = Returned("removeTodo", "false", t) /\ NothingChanged
            /\ ToggleTodo(t) =>
                   ret' = Returned("toggleTodo", "false", t) /\ NothingChanged
            /\ \A text \in TextInputs, description \in DescriptionInputs :
                   UpdateTodo(t, text, description) =>
                       ret' = Returned("updateTodo", "false", t) /\ NothingChanged
       /\ \A t \in TodoIdInputs, g \in GroupIdInputs :
            (MoveTodo(t, g) /\ (g \notin GroupIds(groups) \/ t \notin TodoIds(todos))) =>
                ret' = Returned("moveTodo", "false", t) /\ NothingChanged
      ]_vars

\* ------------------------------------------------ a todo just added
\* the first-run board (the default group, created at time 0) right after
\* addTodo(text, group) has returned its todo, created at time `created`; the
\* clock reads the creation time or one millisecond more
InitAfterAddTodo ==
    /\ \E created \in 0..1, text \in {x \in TextInputs : validateText(x)} :
          /\ groups = addGroupPush(<<>>, DEFAULT_GROUP_NAME, Null,
                                   generateId(GroupIdPool, {}), 0)
          /\ todos = <<NewTodoItem(text, groups[1].id, Bool(FALSE), Str(<<>>), "",
                                   generateId(TodoIdPool, {}), created)>>
          /\ now \in created..1
    /\ currentFilter = "active"
    /\ isInitialized = TRUE
    /\ storedGroups = SerializedGroups(groups)
    /\ storedTodos = SerializedTodos(todos)
    /\ writes = <<>>
    /\ pc = "ready"
    /\ ret = [op |-> "addTodo", res |-> "todo", n |-> 0, id |-> todos[1].id]
    /\ nOps = 0
    /\ rendered = NoView

SpecAfterAddTodo == InitAfterAddTodo /\ [][Next]_vars

\* C15 as stated: toggleTodo on the todo just added, and toggleTodo again
\* right after the first returned true, each flip completed, so that the
\* second restores the value the todo was created with (false), and each
\* leaves updatedAt different from createdAt
C15_DoubleToggle ==
    [][/\ (nOps = 0 /\ todos # <<>> /\ ToggleTodo(todos[1].id)) =>
              /\ todos'[1].completed = TRUE
              /\ todos'[1].updatedAt # todos'[1].createdAt
       /\ (/\ nOps = 1 /\ todos # <<>>
           /\ ret = Returned("toggleTodo", "true", todos[1].id)
           /\ ToggleTodo(todos[1].id)) =>
              /\ todos'[1].completed = FALSE
              /\ todos'[1].updatedAt # todos'[1].createdAt
      ]_vars

\* C15 amended: the two toggles flip completed to true and back to false, the
\* value the todo was created with; each sets updatedAt to the clock reading
\* of the toggle, which is never before createdAt and differs from createdAt
\* exactly when the clock has advanced since the todo was created; createdAt
\* and every other field stay
C15_DoubleToggleStampsClock ==
    [][/\ (nOps = 0 /\ todos # <<>> /\ ToggleTodo(todos[1].id)) =>
              /\ todos' = <<[todos[1] EXCEPT !.completed = TRUE, !.updatedAt = now]>>
              /\ todos[1].completed = FALSE
              /\ todos'[1].updatedAt >= todos'[1].createdAt
              /\ (todos'[1].updatedAt # todos'[1].createdAt) <=> (now > todos[1].createdAt)
       /\ (/\ nOps = 1 /\ todos # <<>>
           /\ ret = Returned("toggleTodo", "true", todos[1].id)
           /\ ToggleTodo(todos[1].id)) =>
              /\ todos' = <<[todos[1] EXCEPT !.completed = FALSE, !.updatedAt = now]>>
              /\ todos[1].completed = TRUE
              /\ todos'[1].updatedAt >= todos'[1].createdAt
              /\ (todos'[1].updatedAt # todos'[1].createdAt) <=> (now > todos[1].createdAt)
       /\ (ret'.op = "toggleTodo" /\ ret'.res = "true") => todos' = todos
      ]_vars

\* the second toggleTodo has returned true one millisecond after the todo was
\* added: the todo is active again, stamped with the later clock reading
C15_Witness ==
    /\ nOps = 2
    /\ Len(todos) = 1 /\ todos[1].completed = FALSE
    /\ ret = Returned("toggleTodo", "true", todos[1].id)
    /\ todos[1].createdAt = 0 /\ todos[1].updatedAt = 1
    /\ storedTodos = SerializedTodos(todos)

\* C16: a successful addGroup adds one group under a new id, with the trimmed
\* name and, when the position is omitted, the number of groups there were
\* before the call as its position; it leaves the in-memory groups in
\* ascending order of position, and its caller is returned the new group
C16_AddGroupPositionAndOrder ==
    [][/\ \A name \in NameInputs, position \in PositionInputs :
            (AddGroup(name, position) /\ ~InvalidString(name, MAX_GROUP_NAME_LENGTH)) =>
                LET w == writes'[Len(writes')]
                    added == {i \in 1..Len(groups') : groups'[i].id = w.id}
                IN /\ Len(writes') = Len(writes) + 1
                   /\ w.op = "addGroup" /\ w.res = "group"
                   /\ w.id \notin GroupIds(groups) \cup {""}
                   /\ Cardinality(added) = 1
                   /\ \A i \in added :
                          /\ groups'[i].name = trim(name.s)
                          /\ position = Null => groups'[i].position = Len(groups)
                          /\ position # Null => groups'[i].position = position.n
                   /\ \A i, j \in 1..Len(groups') :
                          i < j => groups'[i].position <= groups'[j].position
                   /\ {groups'[i] : i \in (1..Len(groups')) \ added} = Range(groups)
       /\ (ret'.op = "addGroup" /\ ret'.res = "group") =>
              /\ writes # <<>> /\ Settle(TRUE)
              /\ ret'.id = Head(writes).id
              /\ ret'.id \in GroupIds(groups')
              /\ groups' = groups
              /\ \A i, j \in 1..Len(groups') :
                     i < j => groups'[i].position <= groups'[j].position
      ]_vars

\* addGroup(name) has returned its group on the stored board: the new group
\* has position 3, the number of groups before, and the four groups are in
\* position order (B, A, C, new)
C16_Witness ==
    /\ ret.op = "addGroup" /\ ret.res = "group"
    /\ nOps = 1
    /\ Len(groups) = 4
    /\ groups[1].id = "g2" /\ groups[2].id = "g1" /\ groups[3].id = "g3"
    /\ groups[4].id = ret.id /\ groups[4].position = 3
    /\ Len(groups[4].name) = MAX_GROUP_NAME_LENGTH

\* what a call gives its caller when it does not raise
ReturnValues == {"ok", "group", "todo", "true", "false", "count", "undefined"}

\* C17: whatever initialize() or a mutating operation raises to its caller
\* is a ValidationError or a StorageError, for every argument and every
\* storage outcome
C17_ErrorTaxonomy ==
    (ret # NoRet /\ ret.res \notin ReturnValues) =>
        /\ ret.op \in MutatingOps \cup {"initialize"}
        /\ ret.res \in {"ValidationError", "StorageError"}

\* addTodo(7, group) has raised: the TypeError of text.substring reached the
\* caller as a StorageError, with no write made
C17_Witness ==
    /\ ret = Returned("addTodo", "StorageError", "")
    /\ nOps = 1 /\ writes = <<>>
    /\ storedTodos = BoardTodos /\ Len(todos) = 3

FilterModes == {"all", "active", "completed"}

\* C18: a manager just constructed has the filter 'active'; the filter is
\* always one of all, active, completed; setFilter(mode) sets it to mode when
\* mode is one of the three and leaves it alone otherwise, changing nothing
\* else; getFilteredTodos() lists, in order, the todos that are not completed
\* (active), those that are (completed), or every todo (all)
C18_FilterMode ==
    /\ [](/\ pc = "loadGroups" => currentFilter = "active"
          /\ currentFilter \in FilterModes
          /\ currentFilter = "active" =>
                 IsSubsequenceAt(getFilteredTodos, todos,
                                 {i \in 1..Len(todos) : ~todos[i].completed})
          /\ currentFilter = "completed" =>
                 IsSubsequenceAt(getFilteredTodos, todos,
                                 {i \in 1..Len(todos) : todos[i].completed})
          /\ currentFilter = "all" => getFilteredTodos = todos)
    /\ [][\A mode \in FilterInputs :
              SetFilter(mode) =>
                  /\ currentFilter' = IF mode \in FilterModes THEN mode ELSE currentFilter
                  /\ NothingChanged
         ]_vars

\* setFilter('completed') was called on the stored board: t2, the one
\* completed todo, is listed
C18_Witness ==
    /\ ret = Returned("setFilter", "undefined", "")
    /\ nOps = 1
    /\ currentFilter = "completed"
    /\ Len(todos) = 3
    /\ getFilteredTodos = <<todos[2]>> /\ todos[2].id = "t2"

\* C19: getStats() gives total = the number of todos in memory, completed =
\* the number of them that are completed, active = the number that are not,
\* hence total = active + completed, in every state and under every filter;
\* setFilter does not change the result
C19_Stats ==
    /\ [](/\ getStats.total = Len(todos)
          /\ getStats.completed =
                 Cardinality({i \in 1..Len(todos) : todos[i].completed})
          /\ getStats.active =
                 Cardinality({i \in 1..Len(todos) : ~todos[i].completed})
          /\ getStats.total = getStats.active + getStats.completed)
    /\ [][\A mode \in FilterInputs : SetFilter(mode) => getStats' = getStats]_vars

\* under the filter 'completed' on the stored board, which lists one todo,
\* the statistics are those of all three todos
C19_Witness ==
    /\ currentFilter = "completed"
    /\ ret = Returned("setFilter", "undefined", "")
    /\ Len(getFilteredTodos) = 1
    /\ getStats = [total |-> 3, active |-> 2, completed |-> 1]

\* ------------------------------------------------------ overlapping calls
\* the caller does not await: a call may be made while the writes of earlier
\* calls are in flight
NextOverlap ==
    \/ \E ok \in BOOLEAN : LoadGroups(ok) /\ UNCHANGED rendered
    \/ \E ok \in BOOLEAN : LoadTodos(ok) /\ UNCHANGED rendered
    \/ \E name \in NameInputs, position \in PositionInputs :
           AddGroup(name, position) /\ UNCHANGED rendered
    \/ \E groupId \in GroupIdInputs : RemoveGroup(groupId) /\ UNCHANGED rendered
    \/ \E groupId \in GroupIdInputs, newName \in NameInputs :
           UpdateGroupName(groupId, newName) /\ UNCHANGED rendered
    \/ \E text \in TextInputs, groupId \in GroupIdInputs :
           AddTodo(text, groupId) /\ UNCHANGED rendered
    \/ \E id \in TodoIdInputs : RemoveTodo(id) /\ UNCHANGED rendered
    \/ \E todoId \in TodoIdInputs, newGroupId \in GroupIdInputs :
           MoveTodo(todoId, newGroupId) /\ UNCHANGED rendered
    \/ \E id \in TodoIdInputs, newText \in TextInputs,
          newDescription \in DescriptionInputs :
           UpdateTodo(id, newText, newDescription) /\ UNCHANGED rendered
    \/ \E id \in TodoIdInputs : ToggleTodo(id) /\ UNCHANGED rendered
    \/ ClearCompleted /\ UNCHANGED rendered
    \/ \E newFilter \in FilterInputs :
           SetFilter(newFilter) /\ UNCHANGED rendered
    \/ \E ok \in BOOLEAN : Settle(ok) /\ UNCHANGED rendered
    \/ Tick /\ UNCHANGED rendered
    \/ Reload /\ UNCHANGED rendered

SpecOverlap == Init /\ [][NextOverlap]_vars

\* the writes in flight for one key, oldest first
KeyWrites(ws, key) == SelectSeq(ws, LAMBDA w : w.key = key)

C21_PositionNonNegative ==
    \A i \in 1..Len(groups) : groups[i].position \in Nat

\* ------------------------------------------------- storage that settles
\* overlapping calls, every chrome.storage.sync get and set call settling
\* (resolving or being rejected) in the end
SpecSettling ==
    /\ Init
    /\ [][NextOverlap]_vars
    /\ WF_vars(\E ok \in BOOLEAN : LoadGroups(ok) /\ UNCHANGED rendered)
    /\ WF_vars(\E ok \in BOOLEAN : LoadTodos(ok) /\ UNCHANGED rendered)
    /\ WF_vars(\E ok \in BOOLEAN : Settle(ok) /\ UNCHANGED rendered)

\* the invocations that have neither returned nor raised: initialize() while
\* it awaits a read, and one call for every write that is the only write of
\* its call or the second of removeGroup's two
PendingCalls ==
    Cardinality({i \in 1..Len(writes) : writes[i].role \in {"only", "second"}})
    + (IF pc \in {"loadGroups", "loadTodos"} THEN 1 ELSE 0)

\* C22: with every storage call settling, however many invocations of
\* initialize() and of the mutating operations are pending, overlapping or
\* not, fewer are pending later on, down to none; and an invocation stops
\* being pending by giving its caller a result or an error
C22_Termination ==
    /\ \A k \in 1..(MaxOps + 1) : (PendingCalls >= k) ~> (PendingCalls < k)
    /\ [][PendingCalls' < PendingCalls =>
              /\ PendingCalls' = PendingCalls - 1
              /\ ret'.op \in MutatingOps \cup {"initialize"}
              /\ ret'.res \in ReturnValues \cup {"ValidationError", "StorageError"}
         ]_vars

\* two calls are pending at once: removeGroup with both its writes in flight
\* and a call made after it
C22_Witness ==
    /\ PendingCalls = 2
    /\ Len(writes) = 3
    /\ writes[1].op = "removeGroup" /\ writes[1].role = "first"
    /\ writes[2].op = "removeGroup" /\ writes[2].role = "second"
    /\ writes[3].op = "toggleTodo"

\* ------------------------------------------------------- a first run
\* the extension starts on a storage that holds neither key
InitEmpty ==
    /\ Init
    /\ storedGroups = <<>>
    /\ storedTodos = <<>>

SpecFromEmpty == InitEmpty /\ [][Next]_vars

\* C23: on a first run, whenever no write is in flight, every stored todo has
\* the id of a stored group as its groupId
C23_StoredReferentialIntegrity ==
    writes = <<>> =>
        \A i \in 1..Len(storedTodos) :
            \E j \in 1..Len(storedGroups) :
                storedTodos[i].groupId = storedGroups[j].id

\* C23, the removeGroup case: right after removeGroup's two writes have
\* settled, no stored todo has the removed group as its groupId
C23_RemoveGroupLeavesNoOrphan ==
    [][(ret'.op = "removeGroup" /\ ret'.res \in {"true", "StorageError"}
        /\ writes' = <<>>) =>
           \A i \in 1..Len(storedTodos') : storedTodos'[i].groupId # ret'.id]_vars

\* ------------------------------------------------- callers with old ids
\* the ids a caller may still hold: of the groups in memory, in storage or in
\* a write in flight, and one that was never given out
HeldGroupIds == UsedGroupIds \cup {"gX"}

\* overlapping calls, addTodo, moveTodo and removeGroup also called with the
\* id of a group that is no longer in memory
NextHeldIds ==
    \/ NextOverlap
    \/ \E text \in TextInputs, groupId \in HeldGroupIds :
           AddTodo(text, groupId) /\ UNCHANGED rendered
    \/ \E todoId \in TodoIdInputs, newGroupId \in HeldGroupIds :
           MoveTodo(todoId, newGroupId) /\ UNCHANGED rendered
    \/ \E groupId \in HeldGroupIds : RemoveGroup(groupId) /\ UNCHANGED rendered

SpecHeldIds == Init /\ [][NextHeldIds]_vars

\* C24: once initialize() is over, whatever calls overlap, the groups and
\* the todos in memory change only in the step of a call, never when a write
\* settles, and a todo that a step adds or gives another groupId has the id
\* of a group that is in memory after that step
C24_AtomicCheckThenMutate ==
    [][(pc = "ready" /\ pc' = "ready") =>
           /\ (groups' # groups \/ todos' # todos) =>
                  nOps' = nOps + 1 /\ UNCHANGED <<storedGroups, storedTodos>>
           /\ \A i \in 1..Len(todos') :
                  (~\E j \in 1..Len(todos) :
                        /\ todos[j].id = todos'[i].id
                        /\ todos[j].groupId = todos'[i].groupId)
                  => \E g \in 1..Len(groups') : groups'[g].id = todos'[i].groupId
      ]_vars

\* removeGroup has emptied the board and its writes are in flight when
\* addTodo is called and refused: the group it names is not in memory
C24_Witness ==
    /\ groups = <<>>
    /\ todos = <<>>
    /\ Len(writes) = 2
    /\ writes[1].op = "removeGroup"
    /\ Len(storedGroups) > 0
    /\ ret.op = "addTodo" /\ ret.res = "ValidationError"

\* a todo goes into another group while removeGroup's writes are in flight
C24_WitnessAdded ==
    /\ Len(writes) = 3
    /\ writes[1].op = "removeGroup"
    /\ writes[3].op \in {"addTodo", "moveTodo"}
    /\ \E i \in 1..Len(todos) :
          /\ todos[i].id = writes[3].id
          /\ \E g \in 1..Len(groups) : groups[g].id = todos[i].groupId

\* ------------------------------------------ addGroup without a position
\* overlapping calls, every call of addGroup leaving position out
NextNoPosition ==
    \/ \E ok \in BOOLEAN : LoadGroups(ok) /\ UNCHANGED rendered
    \/ \E ok \in BOOLEAN : LoadTodos(ok) /\ UNCHANGED rendered
    \/ \E name \in NameInputs : AddGroup(name, Null) /\ UNCHANGED rendered
    \/ \E groupId \in GroupIdInputs : RemoveGroup(groupId) /\ UNCHANGED rendered
    \/ \E groupId \in GroupIdInputs, newName \in NameInputs :
           UpdateGroupName(groupId, newName) /\ UNCHANGED rendered
    \/ \E text \in TextInputs, groupId \in GroupIdInputs :
           AddTodo(text, groupId) /\ UNCHANGED rendered
    \/ \E id \in TodoIdInputs : RemoveTodo(id) /\ UNCHANGED rendered
    \/ \E todoId \in TodoIdInputs, newGroupId \in GroupIdInputs :
           MoveTodo(todoId, newGroupId) /\ UNCHANGED rendered
    \/ \E id \in TodoIdInputs, newText \in TextInputs,
          newDescription \in DescriptionInputs :
           UpdateTodo(id, newText, newDescription) /\ UNCHANGED rendered
    \/ \E id \in TodoIdInputs : ToggleTodo(id) /\ UNCHANGED rendered
    \/ ClearCompleted /\ UNCHANGED rendered
    \/ \E newFilter \in FilterInputs :
           SetFilter(newFilter) /\ UNCHANGED rendered
    \/ \E ok \in BOOLEAN : Settle(ok) /\ UNCHANGED rendered
    \/ Tick /\ UNCHANGED rendered
    \/ Reload /\ UNCHANGED rendered

SpecNoPosition == InitEmpty /\ [][NextNoPosition]_vars

\* C25: on a first run where addGroup is never given a position, the n
\* groups in memory have the positions 0..n-1, each once, and the array is
\* in ascending order of position
C25_ContiguousPositions ==
    /\ {groups[i].position : i \in 1..Len(groups)} = 0..(Len(groups) - 1)
    /\ \A i \in 1..Len(groups) : groups[i].position = i - 1

\* a group added without a position is the only one left after removeGroup
\* took the default group away, and removeGroup's writes were rejected
C25_Witness ==
    /\ Len(groups) = 1
    /\ groups[1].id # "g1"
    /\ groups[1].position = 0
    /\ ret.op = "removeGroup" /\ ret.res = "StorageError"

\* ------------------------------------------------------------ the page
\* TodoManager.getTodosForGroup, of the todos ts
getTodosForGroup(ts, groupId) ==
    filter(ts, LAMBDA todo : todo.groupId = groupId)

\* TodoUI.getFilteredTodosForGroup, under the filter f
getFilteredTodosForGroup(f, ts) ==
    CASE f = "active" -> filter(ts, LAMBDA todo : ~todo.completed)
      [] f = "completed" -> filter(ts, LAMBDA todo : todo.completed)
      [] OTHER -> ts

\* TodoUI.createTodoHTML: what an item shows of its todo
createTodoHTML(todo) ==
    [id |-> todo.id, text |-> todo.text, completed |-> todo.completed]

\* TodoUI.createGroupElement: a column with its name and the items of the
\* todos of the group that pass the filter
createGroupElement(group, ts, f) ==
    LET filteredTodos == getFilteredTodosForGroup(f, getTodosForGroup(ts, group.id))
    IN [id |-> group.id, name |-> group.name,
        todos |-> [i \in 1..Len(filteredTodos) |-> createTodoHTML(filteredTodos[i])]]

\* TodoUI.renderBoard: one column for each group of getGroups(), in its order
renderBoard(gs, ts, f) ==
    LET sorted == SortByPosition(gs)
    IN [i \in 1..Len(sorted) |-> createGroupElement(sorted[i], ts, f)]

\* TodoUI.render for a manager holding the groups gs, the todos ts and the
\* filter f: renderBoard, renderStats (the two counts of getStats()) and
\* updateEmptyState
View(gs, ts, f) ==
    LET completed == Len(filter(ts, LAMBDA todo : todo.completed))
    IN [shown |-> TRUE,
        board |-> renderBoard(gs, ts, f),
        activeCount |-> Len(ts) - completed,
        completedCount |-> completed,
        emptyState |-> gs = <<>>]

\* what TodoUI.render would show of the manager as it is
render == View(groups, todos, currentFilter)

\* whether the caller of the manager renders when the call r has completed:
\* TodoApp.initialize after initialize() returned, handleFilterClick always,
\* handleAddGroup and handleGroupTodoSubmit when the call returned,
\* handleClearCompleted when the count is positive, the other handlers when
\* the call returned true; a catch block only reports the error
handlerRenders(r) ==
    \/ r.op = "initialize" /\ r.res = "ok"
    \/ r.op = "setFilter"
    \/ r.op = "addGroup" /\ r.res = "group"
    \/ r.op = "addTodo" /\ r.res = "todo"
    \/ r.op = "clearCompleted" /\ r.res = "count" /\ r.n > 0
    \/ /\ r.op \in {"toggleTodo", "removeTodo", "updateGroupName", "removeGroup",
                    "moveTodo", "updateTodo"}
       /\ r.res = "true"

\* the rest of the handler whose manager call completes in this step, or of
\* TodoApp.initialize; a page that is loaded anew shows nothing yet
afterCall ==
    rendered' = IF pc' = "loadGroups" THEN NoView
                ELSE IF handlerRenders(ret') THEN View(groups', todos', currentFilter')
                ELSE rendered

\* the ids the page offers: of its columns and of its items
RenderedGroupIds == {rendered.board[i].id : i \in 1..Len(rendered.board)}

RenderedTodoIds ==
    UNION {{rendered.board[i].todos[j].id : j \in 1..Len(rendered.board[i].todos)} :
              i \in 1..Len(rendered.board)}

\* what the user types into prompt() or into an input element: nothing, a
\* blank, text with a blank to trim, a name that is too long
TypedInputs ==
    {Str(<<>>), Str(<<" ">>), Str(<<" ", "n">>), Str(<<"d">>),
     Str(Repeat("x", MAX_GROUP_NAME_LENGTH + 1))}

\* the name shown by the column of groupId
RenderedName(groupId) ==
    rendered.board[CHOOSE i \in 1..Len(rendered.board) :
                       rendered.board[i].id = groupId].name

handleAddGroup(groupName) ==
    /\ groupName.s # <<>> /\ trim(groupName.s) # <<>>
    /\ \E name \in {Str(trim(groupName.s))} : AddGroup(name, Null)
    /\ afterCall

handleFilterClick(newFilter) ==
    SetFilter(newFilter) /\ afterCall

handleClearCompleted ==
    ClearCompleted /\ afterCall

handleTodoToggle(todoId) ==
    ToggleTodo(todoId) /\ afterCall

handleTodoDelete(todoId) ==
    RemoveTodo(todoId) /\ afterCall

handleGroupNameEdit(groupId, newName) ==
    /\ newName.s # <<>> /\ trim(newName.s) # <<>>
    /\ trim(newName.s) # RenderedName(groupId)
    /\ \E name \in {Str(trim(newName.s))} : UpdateGroupName(groupId, name)
    /\ afterCall

handleGroupDelete(groupId) ==
    RemoveGroup(groupId) /\ afterCall

handleGroupTodoSubmit(value, groupId) ==
    /\ trim(value.s) # <<>>
    /\ \E text \in {Str(trim(value.s))} : AddTodo(text, groupId)
    /\ afterCall

handleTodoMove(todoId, newGroupId) ==
    MoveTodo(todoId, newGroupId) /\ afterCall

handleTodoEditSubmit(todoId, title, description) ==
    /\ trim(title.s) # <<>>
    /\ \E newTitle \in {Str(trim(title.s))},
          newDescription \in {Str(trim(description.s))} :
           UpdateTodo(todoId, newTitle, newDescription)
    /\ afterCall

\* the page in use: the handlers of TodoUI, which may be started while the
\* write of an earlier one is in flight, with the ids the page offers
NextUI ==
    \/ \E ok \in BOOLEAN : LoadGroups(ok) /\ afterCall
    \/ \E ok \in BOOLEAN : LoadTodos(ok) /\ afterCall
    \/ \E groupName \in TypedInputs : handleAddGroup(groupName)
    \/ \E newFilter \in FilterInputs \ {"done"} : handleFilterClick(newFilter)
    \/ handleClearCompleted
    \/ \E todoId \in RenderedTodoIds : handleTodoToggle(todoId)
    \/ \E todoId \in RenderedTodoIds : handleTodoDelete(todoId)
    \/ \E groupId \in RenderedGroupIds, newName \in TypedInputs :
           handleGroupNameEdit(groupId, newName)
    \/ \E groupId \in RenderedGroupIds : handleGroupDelete(groupId)
    \/ \E value \in TypedInputs, groupId \in RenderedGroupIds :
           handleGroupTodoSubmit(value, groupId)
    \/ \E todoId \in RenderedTodoIds, newGroupId \in RenderedGroupIds :
           handleTodoMove(todoId, newGroupId)
    \/ \E todoId \in RenderedTodoIds, title \in TypedInputs,
          description \in TypedInputs :
           handleTodoEditSubmit(todoId, title, description)
    \/ \E ok \in BOOLEAN : Settle(ok) /\ afterCall
    \/ Tick /\ UNCHANGED rendered
    \/ Reload /\ afterCall

SpecUI == Init /\ [][NextUI]_vars

\* C26: once the page is in use, when a handler that called a mutating
\* operation has finished, with a result or with an error, the page shows
\* the board and the counts computed from the manager's groups, todos and
\* filter
C26_ViewConsistency ==
    (pc = "ready" /\ ret.op \in MutatingOps) => rendered = render

====
